---- MODULE Spec2Model ----
(***************************************************************************)
(* A model of the McuManager class (SMP / mcumgr client over Web           *)
(* Bluetooth): frame header codec, notification reassembly buffer, the     *)
(* retry driven image upload and the MCUboot image parser.                 *)
(*                                                                         *)
(* Byte buffers are sequences of 0..255.  Sequences are 1-based, the       *)
(* source's offsets are 0-based: byte k of a buffer b is b[k + 1].         *)
(***************************************************************************)
EXTENDS Integers, Naturals, Sequences, FiniteSets, TLC

(***************************************************************************)
(* Bounds of the model                                                     *)
(***************************************************************************)
\* payload size (bytes after the 32 byte header) of the well formed image
MaxPayload == 12
\* number of stimuli (cmdUpload calls, timer expiries, device frames, link
\* events) in one behaviour
MaxEvents == 6
\* number of frames the device writes back to back in one behaviour of the
\* reassembly specification
MaxFrames == 2
\* saturation of the event counters
MaxCount == 2
\* payload size of the images handed to imageInfo, from 0 up to
MaxBody == 2

(***************************************************************************)
(* Program constants                                                       *)
(***************************************************************************)
SMP_HEADER_SIZE == 8
nmpOverhead == 8
HashLen == 32
IMAGE_MAGIC == <<61, 184, 243, 150>>      \* 0x96f3b83d, little endian
TLV_INFO_MAGIC == 26887                   \* 0x6907
TLV_PROT_INFO_MAGIC == 26888              \* 0x6908
OpWrite == 2
OpWriteResponse == 3
GroupOS == 0
GroupImage == 1
GroupImageUpload == 1
GroupOSEcho == 0
GroupOSReset == 5

\* the number read where JavaScript yields undefined or NaN, and where a
\* DataView read raises a RangeError (no byte or length is negative)
NaN == 0 - 1
\* _upload.image === null
NoImage == <<NaN>>
\* _upload.imageInfo === null
NoInfo == [ok |-> FALSE]

(***************************************************************************)
(* Byte buffer helpers (Uint8Array / ArrayBuffer / DataView)               *)
(***************************************************************************)
Min(a, b) == IF a < b THEN a ELSE b
Max(a, b) == IF a > b THEN a ELSE b

\* ArrayBuffer.prototype.slice(begin, end): negative indices count from the
\* end, both are clamped to the buffer, an empty range gives an empty buffer.
RelIndex(i, len) == IF i < 0 THEN Max(len + i, 0) ELSE Min(i, len)

Slice(s, begin, end) ==
    LET first == RelIndex(begin, Len(s))
        final == RelIndex(end, Len(s))
    IN  IF final <= first THEN <<>> ELSE SubSeq(s, first + 1, final)

SliceFrom(s, begin) == Slice(s, begin, Len(s))

\* DataView getters: a read that leaves the view raises a RangeError,
\* modelled by the value NaN that the callers test for.
InView(s, off, n) == off >= 0 /\ off + n <= Len(s)
getUint8(s, off) == IF InView(s, off, 1) THEN s[off + 1] ELSE NaN
getUint16(s, off) ==
    IF InView(s, off, 2) THEN s[off + 1] + 256 * s[off + 2] ELSE NaN
getUint32(s, off) ==
    IF InView(s, off, 4)
    THEN s[off + 1] + 256 * s[off + 2] + 65536 * s[off + 3] + 16777216 * s[off + 4]
    ELSE NaN

U16LE(n) == <<n % 256, (n \div 256) % 256>>
U32LE(n) == <<n % 256, (n \div 256) % 256, (n \div 65536) % 256, (n \div 16777216) % 256>>

RECURSIVE SumBytes(_, _, _)
\* position weighted sum of bytes lo..hi of s (halving keeps the recursion
\* shallow)
SumBytes(s, lo, hi) ==
    IF lo > hi THEN 0
    ELSE IF lo = hi THEN (s[lo] * lo) % 65521
    ELSE LET mid == (lo + hi) \div 2
         IN  (SumBytes(s, lo, mid) + SumBytes(s, mid + 1, hi)) % 65521

\* crypto.subtle.digest('SHA-256', .): a 32 byte digest.  The model digest
\* is a position weighted checksum spread over 32 bytes: changing one byte
\* of the input changes the digest.
_hash(bytes) ==
    LET c == SumBytes(bytes, 1, Len(bytes))
    IN  [i \in 1..HashLen |-> (c + (c \div 256) * i + Len(bytes) + i) % 256]

(***************************************************************************)
(* cborg: sizes of encoded values and a decoder for maps of unsigned       *)
(* integers keyed by text strings (the shape of SMP responses).            *)
(***************************************************************************)
\* bytes of a CBOR head carrying the argument n
CborHead(n) == IF n < 24 THEN 1
               ELSE IF n < 256 THEN 2
               ELSE IF n < 65536 THEN 3
               ELSE 5      \* numbers of the model stay below 2^31

CborUintSize(n) == CborHead(n)
CborBytesSize(n) == CborHead(n) + n
CborTextSize(n) == CborHead(n) + n

KeyOff == <<111, 102, 102>>     \* "off"
KeyRc == <<114, 99>>            \* "rc"

\* one unsigned integer at 0-based position p: <<value, next position>>,
\* <<NaN, NaN>> when the input is truncated or not an unsigned integer
CborUintAt(b, p) ==
    IF p >= Len(b) THEN <<NaN, NaN>>
    ELSE LET ib == b[p + 1]
         IN  IF ib < 24 THEN <<ib, p + 1>>
             ELSE IF ib = 24 /\ p + 2 <= Len(b) THEN <<b[p + 2], p + 2>>
             ELSE IF ib = 25 /\ p + 3 <= Len(b)
                  THEN <<b[p + 2] * 256 + b[p + 3], p + 3>>
             ELSE <<NaN, NaN>>

\* one text string key at 0-based position p: <<bytes, next position>>
CborTextAt(b, p) ==
    IF p >= Len(b) THEN <<<<>>, NaN>>
    ELSE LET ib == b[p + 1]
         IN  IF ib >= 96 /\ ib < 120 /\ p + 1 + (ib - 96) <= Len(b)
             THEN <<SubSeq(b, p + 2, p + 1 + (ib - 96)), p + 1 + (ib - 96)>>
             ELSE <<<<>>, NaN>>

CborError == [ok |-> FALSE, map |-> {}]

RECURSIVE CborEntries(_, _, _, _)
\* n map entries from position p, accumulated in acc (a set of <<key, value>>
\* pairs, a later entry of a key replacing an earlier one)
CborEntries(b, p, n, acc) ==
    IF n = 0 THEN (IF p = Len(b) THEN [ok |-> TRUE, map |-> acc] ELSE CborError)
    ELSE LET k == CborTextAt(b, p)
         IN  IF k[2] = NaN THEN CborError
             ELSE LET v == CborUintAt(b, k[2])
                  IN  IF v[2] = NaN THEN CborError
                      ELSE CborEntries(b, v[2], n - 1,
                              {e \in acc : e[1] # k[1]} \cup {<<k[1], v[1]>>})

\* cborg.decode: ok = FALSE stands for a thrown decode error (no content,
\* trailing bytes, truncated or unsupported input)
CborDecode(b) ==
    IF Len(b) = 0 THEN CborError
    ELSE IF b[1] >= 160 /\ b[1] < 184 THEN CborEntries(b, 1, b[1] - 160, {})
    ELSE CborError

\* property read data.key: the value, or NaN for undefined
Prop(data, key) ==
    IF \E e \in data : e[1] = key
    THEN (CHOOSE e \in data : e[1] = key)[2]
    ELSE NaN

\* JavaScript truthiness of a property that is undefined or a number
Truthy(v) == v # NaN /\ v # 0

\* encodings used to build device responses
CborUint(n) == IF n < 24 THEN <<n>>
               ELSE IF n < 256 THEN <<24, n>>
               ELSE <<25, n \div 256, n % 256>>
CborKey(k) == <<96 + Len(k)>> \o k

(***************************************************************************)
(* MCUboot image parser                                                    *)
(***************************************************************************)
\* an assignment that keeps the value a tag already has
SetTagOnce(tags, tag, value) ==
    IF \E e \in tags : e[1] = tag THEN tags ELSE tags \cup {<<tag, value>>}

\* info.tags[tag] = value
SetTag(tags, tag, value) == {e \in tags : e[1] # tag} \cup {<<tag, value>>}
HasTag(tags, tag) == \E e \in tags : e[1] = tag
TagValue(tags, tag) == (CHOOSE e \in tags : e[1] = tag)[2]

RECURSIVE _extractTlvs(_, _, _)
\* the entries of a TLV area, folded into tags in the order they are
\* yielded; ok = FALSE when a header read leaves the area (RangeError)
_extractTlvs(data, offset, tags) ==
    IF ~(offset < Len(data)) THEN [ok |-> TRUE, tags |-> tags]
    ELSE LET tag == getUint16(data, offset)
             len == getUint16(data, offset + 2)
         IN  IF tag = NaN \/ len = NaN THEN [ok |-> FALSE, tags |-> tags]
             ELSE _extractTlvs(data, offset + 4 + len,
                               SetTag(tags, tag, Slice(data, offset + 4, offset + 4 + len)))

ImageError(msg, afterDigest) ==
    [ok |-> FALSE, err |-> msg, afterDigest |-> afterDigest]

\* the hash comparison with a test of the length only
HashValidByLength(tags, hash) ==
    /\ HasTag(tags, 16)
    /\ Len(TagValue(tags, 16)) = Len(hash)

\* 16 in info.tags, of the length of the hash and equal to it byte for byte
HashValid(tags, hash) ==
    /\ HasTag(tags, 16)
    /\ Len(TagValue(tags, 16)) = Len(hash)
    /\ TagValue(tags, 16) = hash

\* the unprotected trailer and the hash comparison (the end of imageInfo)
ImageInfoTrailer(image, offset, tags, imageSize, version, hash) ==
    LET magic == getUint16(image, offset)
        len == getUint16(image, offset + 2)
    IN  IF magic = NaN THEN ImageError("RangeError", TRUE)
        ELSE IF magic # TLV_INFO_MAGIC THEN ImageError("Expected TLV magic number", TRUE)
        ELSE IF len = NaN THEN ImageError("RangeError", TRUE)
        ELSE LET tlvs == _extractTlvs(Slice(image, offset + 4, len + offset), 0, tags)
             IN  IF ~tlvs.ok THEN ImageError("RangeError", TRUE)
                 ELSE [ok |-> TRUE,
                       imageSize |-> imageSize,
                       version |-> version,
                       hash |-> hash,
                       hashValid |-> HashValid(tlvs.tags, hash),
                       tags |-> tlvs.tags]

\* the protected TLV area, when the header announces one
ImageInfoTlvs(image, headerSize, protected_tlv_lenth, imageSize, version, hash) ==
    LET offset == headerSize + imageSize
    IN  IF protected_tlv_lenth > 0
        THEN LET magic == getUint16(image, offset)
                 len == getUint16(image, offset + 2)
             IN  IF magic = NaN THEN ImageError("RangeError", TRUE)
                 ELSE IF magic # TLV_PROT_INFO_MAGIC
                      THEN ImageError("Expected protected TLV magic number", TRUE)
                 ELSE IF len = NaN THEN ImageError("RangeError", TRUE)
                 ELSE LET tlv_end == len + offset
                          tlvs == _extractTlvs(Slice(image, offset + 4, tlv_end), 0, {})
                      IN  IF ~tlvs.ok THEN ImageError("RangeError", TRUE)
                          ELSE ImageInfoTrailer(image, tlv_end, tlvs.tags,
                                                imageSize, version, hash)
        ELSE ImageInfoTrailer(image, offset, {}, imageSize, version, hash)

\* imageInfo(image): the descriptor, or the error thrown.  afterDigest tells
\* whether the error is raised before or after the await of the digest.
imageInfo(image) ==
    IF Len(image) < 32 THEN ImageError("too short file", FALSE)
    ELSE IF SubSeq(image, 1, 4) # IMAGE_MAGIC THEN ImageError("wrong magic bytes", FALSE)
    ELSE IF getUint32(image, 4) # 0 THEN ImageError("wrong load address", FALSE)
    ELSE LET headerSize == getUint16(image, 8)
             protected_tlv_lenth == getUint16(image, 10)
             imageSize == getUint32(image, 12)
         IN  IF Len(image) < imageSize + headerSize
             THEN ImageError("wrong image size", FALSE)
             ELSE IF getUint32(image, 16) # 0 THEN ImageError("wrong flags", FALSE)
             ELSE LET version == [major |-> getUint8(image, 20),
                                  minor |-> getUint8(image, 21),
                                  revision |-> getUint16(image, 22),
                                  build |-> getUint32(image, 24)]
                      hash == _hash(Slice(image, 0, headerSize + imageSize + protected_tlv_lenth))
                  IN  ImageInfoTlvs(image, headerSize, protected_tlv_lenth,
                                    imageSize, version, hash)

(***************************************************************************)
(* The images handed to cmdUpload                                          *)
(***************************************************************************)
ImageHeader(magic, n) ==
    magic \o <<0, 0, 0, 0>> \o U16LE(32) \o U16LE(0) \o U32LE(n)
          \o <<0, 0, 0, 0>> \o <<1, 2>> \o U16LE(3) \o U32LE(4) \o <<0, 0, 0, 0>>

ImageBody(n) == [i \in 1..n |-> (7 * i + 1) % 256]

Tlv(tag, value) == U16LE(tag) \o U16LE(Len(value)) \o value

TlvArea(magic, entries) == U16LE(magic) \o U16LE(4 + Len(entries)) \o entries

\* a well formed image of n payload bytes whose trailer carries its digest
GoodImage(n) ==
    LET signed == ImageHeader(IMAGE_MAGIC, n) \o ImageBody(n)
    IN  signed \o TlvArea(TLV_INFO_MAGIC, Tlv(16, _hash(signed)))

\* rejected before the digest: wrong magic bytes
BadMagicImage == ImageHeader(<<1, 2, 3, 4>>, 0) \o TlvArea(TLV_INFO_MAGIC, <<>>)
\* rejected after the digest: no unprotected trailer magic
BadTrailerImage == ImageHeader(IMAGE_MAGIC, 2) \o ImageBody(2) \o <<0, 0, 4, 0>>

GoodImages == {GoodImage(MaxPayload)}

(***************************************************************************)
(* The images handed to imageInfo: a header of 32 bytes, a payload, an     *)
(* optional protected TLV area and a trailer, each built from a parameter. *)
(***************************************************************************)
\* the header read at part_000:473-497: magic, load address, header size,
\* protected TLV length, image size, flags, version, padding
Header(magic, load, protected, size, flags) ==
    magic \o U32LE(load) \o U16LE(32) \o U16LE(protected) \o U32LE(size)
          \o U32LE(flags) \o <<1, 2>> \o U16LE(3) \o U32LE(4) \o <<0, 0, 0, 0>>

\* the tag of an entry kind
EntryTag(kind) == IF kind = "other1" THEN 1 ELSE 16

\* the length an entry kind declares in its header
EntryDeclared(kind) ==
    IF kind = "other1" THEN 2 ELSE IF kind = "short16" THEN 31 ELSE 32

\* the bytes of a TLV entry of a kind, digest being the digest of the bytes
\* the hash covers: tag 16 with that digest, with a digest whose first byte
\* differs, with 32 zero bytes, with 31 bytes only; tag 1; an entry of tag
\* 16 that declares 32 bytes and has 10; the first half of an entry header
EntryBytes(kind, digest) ==
    IF kind = "hash16" THEN Tlv(16, digest)
    ELSE IF kind = "flip16"
         THEN Tlv(16, <<(digest[1] + 1) % 256>> \o SubSeq(digest, 2, HashLen))
    ELSE IF kind = "zero16" THEN Tlv(16, [i \in 1..HashLen |-> 0])
    ELSE IF kind = "short16" THEN Tlv(16, SubSeq(digest, 1, HashLen - 1))
    ELSE IF kind = "other1" THEN Tlv(1, <<9, 9>>)
    ELSE IF kind = "cut16" THEN U16LE(16) \o U16LE(HashLen) \o SubSeq(digest, 1, 10)
    ELSE <<16, 0>>

RECURSIVE Entries(_, _)
Entries(kinds, digest) ==
    IF kinds = <<>> THEN <<>>
    ELSE EntryBytes(Head(kinds), digest) \o Entries(Tail(kinds), digest)

ProtectedLists == {<<>>, <<"other1">>, <<"zero16">>}
TrailerLists ==
    {<<>>, <<"hash16">>, <<"flip16">>, <<"short16">>, <<"other1">>,
     <<"other1", "hash16">>, <<"flip16", "hash16">>, <<"hash16", "zero16">>,
     <<"cut16">>, <<"other1", "cut16">>, <<"hash16", "stub">>}

\* the parameters of an image
ImageParams ==
    [magic : BOOLEAN,               \* the magic bytes are right
     load : {0, 1},                 \* load address
     flags : {0, 1},
     n : 0..MaxBody,                \* payload bytes present
     extra : {0, 100},              \* payload bytes announced and not present
     protected : ProtectedLists,
     magicTlv : {"ok", "bad", "none"},  \* trailer magic; none: no trailer
     trailer : TrailerLists,
     short : BOOLEAN]               \* the file is cut to 31 bytes

\* the bytes the hash covers: header, payload and protected TLV area
SignedPart(p) ==
    LET area == IF p.protected = <<>> THEN <<>>
                ELSE TlvArea(TLV_PROT_INFO_MAGIC, Entries(p.protected, <<>>))
    IN  Header(IF p.magic THEN IMAGE_MAGIC ELSE <<1, 2, 3, 4>>, p.load,
               Len(area), p.n + p.extra, p.flags)
        \o ImageBody(p.n) \o area

\* the image of parameters p
BuildImage(p) ==
    LET signed == SignedPart(p)
        trailer == IF p.magicTlv = "none" THEN <<>>
                   ELSE TlvArea(IF p.magicTlv = "ok" THEN TLV_INFO_MAGIC ELSE 0,
                                Entries(p.trailer, _hash(signed)))
    IN  IF p.short THEN SubSeq(signed, 1, 31) ELSE signed \o trailer

NoParams ==
    [magic |-> TRUE, load |-> 0, flags |-> 0, n |-> 0, extra |-> 0,
     protected |-> <<>>, magicTlv |-> "none", trailer |-> <<>>, short |-> FALSE]
BadImages == {BadMagicImage, BadTrailerImage}
Images == GoodImages \cup BadImages
Slots == {1}
MTUs == {66, 400}

(***************************************************************************)
(* State                                                                   *)
(***************************************************************************)
VARIABLES
    _mtu,               \* constructor option mtu
    _characteristic,    \* "null" or "gatt"
    _buffer,            \* reassembly accumulator
    _seq,               \* sequence counter
    _upload,            \* isInProgress, slot, offset, image, imageInfo, timeoutId
    timers,             \* ids of the host timers that are armed
    digests,            \* _uploadNext calls suspended in await this._hash(..)
    starting,           \* cmdUpload calls suspended in await this.imageInfo(..)
    writes,             \* _sendMessage calls suspended in the transport write
    wire,               \* bytes the device has written, not yet notified
    written,            \* the frames the device has written, not yet extracted
    env,                \* the number of stimuli the environment has produced
    last,               \* what the last handler did (its observable outputs)
    hist                \* history of the current upload session

vars == <<_mtu, _characteristic, _buffer, _seq, _upload, timers,
          digests, starting, writes, wire, written, env, last, hist>>

NoChunk == [off |-> NaN, data |-> <<>>, len |-> NaN, sha |-> <<>>]

\* the outputs of one handler run
Quiet(act) ==
    [act |-> act,           \* the handler
     frame |-> <<>>,        \* bytes handed to _processMessage
     called |-> FALSE,      \* _processMessage was called
     expect |-> <<>>,       \* the oldest frame written and not yet extracted
     route |-> "none",      \* "upload", "message" or "throw" for that frame
     sent |-> <<>>,         \* frames handed to the transport
     finished |-> <<>>,     \* imageUploadFinished events (their hash)
     result |-> "none",     \* outcome reported to the caller of cmdUpload
     origin |-> "none",     \* who called the _uploadNext that sent
     session |-> 0,         \* the session in which that _uploadNext was called
     retryOf |-> NoChunk,   \* the unanswered chunk that _uploadNext retries
     input |-> NoParams,    \* the parameters of the image given to imageInfo
     info |-> NoInfo]       \* what imageInfo returned or threw

\* the history of a session: events and chunks counted from its start, and
\* whether it has been a happy path so far (every chunk sent once and
\* answered by one acknowledgement of its last byte, before any timer fires)
NoHistory ==
    [finished |-> 0,        \* imageUploadFinished events, up to MaxCount
     chunks |-> 0,          \* chunks sent on the happy path
     happy |-> FALSE,
     outstanding |-> 0,     \* chunks sent and not yet acknowledged
     lastChunk |-> NoChunk, \* the payload sent last by a call of this session
     ackSince |-> FALSE,    \* an acknowledgement was accepted since then
     repeat |-> "none",     \* the last send against lastChunk: "same", "different"
     acks |-> {0},          \* the offsets the device may acknowledge
     session |-> 0,         \* the number of sessions started
     inFlight |-> <<>>,     \* frames whose transport write is awaited
     delivered |-> NoChunk, \* the chunk whose transport write succeeded last
     failedChunk |-> NoChunk,   \* the chunk whose transport write failed last
     due |-> FALSE,         \* a chunk was delivered and is neither answered nor lost
     lost |-> 0]            \* chunks or answers lost since the start

NewSession(h) ==
    [h EXCEPT !.finished = 0, !.chunks = 0, !.happy = TRUE, !.outstanding = 0,
              !.lastChunk = NoChunk, !.ackSince = FALSE, !.repeat = "none",
              !.session = @ + 1, !.delivered = NoChunk, !.failedChunk = NoChunk,
              !.due = FALSE, !.lost = 0]

Unhappy(h) == [h EXCEPT !.happy = FALSE, !.chunks = 0, !.outstanding = 0]

Init ==
    /\ _mtu \in MTUs
    /\ _characteristic = "null"
    /\ _buffer = <<>>
    /\ _seq = 0
    /\ _upload = [isInProgress |-> FALSE, slot |-> 0, offset |-> 0,
                  image |-> NoImage, imageInfo |-> NoInfo, timeoutId |-> 0]
    /\ timers = {}
    /\ digests = <<>>
    /\ starting = <<>>
    /\ writes = 0
    /\ wire = <<>>
    /\ written = <<>>
    /\ env = 0
    /\ last = Quiet("init")
    /\ hist = NoHistory

(***************************************************************************)
(* _sendMessage and _uploadNext, as functions of the machine state m:      *)
(* the fields a handler run reads and writes, and its outputs.             *)
(***************************************************************************)
Machine(act) ==
    [characteristic |-> _characteristic, upload |-> _upload, timers |-> timers,
     digests |-> digests, writes |-> writes, out |-> Quiet(act)]

\* cborg.encode(message).byteLength of an upload payload
PayloadSize(message) ==
    1 + CborTextSize(4) + CborBytesSize(Len(message.data))
      + CborTextSize(3) + CborUintSize(message.off)
      + (IF message.len # NaN
         THEN CborTextSize(3) + CborUintSize(message.len)
              + CborTextSize(3) + CborBytesSize(Len(message.sha))
         ELSE 0)

\* the frame _sendMessage builds; Uint8Array.from keeps the low 8 bits of
\* every element
Frame(op, group, id, seq, encodedLength, data) ==
    [op |-> op % 256,
     flags |-> 0,
     length_hi |-> (encodedLength \div 256) % 256,
     length_lo |-> encodedLength % 256,
     group_hi |-> (group \div 256) % 256,
     group_lo |-> group % 256,
     seq |-> seq % 256,
     id |-> id % 256,
     encodedLength |-> encodedLength,
     data |-> data]

\* cborg.encode of an object whose keys are among "rc" and "off" and whose
\* values are unsigned integers: a map, the shorter key first
CborMap(map) ==
    <<160 + Cardinality(map)>>
        \o (IF Prop(map, KeyRc) = NaN THEN <<>>
            ELSE CborKey(KeyRc) \o CborUint(Prop(map, KeyRc)))
        \o (IF Prop(map, KeyOff) = NaN THEN <<>>
            ELSE CborKey(KeyOff) \o CborUint(Prop(map, KeyOff)))

\* the data argument of _sendMessage: absent, or an object
NoData == [present |-> FALSE, map |-> {}]
Data(map) == [present |-> TRUE, map |-> map]

\* the message with the length bytes in the opposite order
MessageOfLowFirst(op, group, id, seq, encodedData) ==
    LET length_lo == Len(encodedData) % 256
        length_hi == Len(encodedData) \div 256
        group_lo == group % 256
        group_hi == group \div 256
    IN  <<op % 256, 0, length_lo, length_hi % 256, group_hi % 256, group_lo,
          seq % 256, id % 256>> \o encodedData

\* the message _sendMessage builds around the encoded body; Uint8Array.from
\* keeps the low 8 bits of every element
MessageOf(op, group, id, seq, encodedData) ==
    LET length_lo == Len(encodedData) % 256
        length_hi == Len(encodedData) \div 256
        group_lo == group % 256
        group_hi == group \div 256
    IN  <<op % 256, 0, length_hi % 256, length_lo, group_hi % 256, group_lo,
          seq % 256, id % 256>> \o encodedData

\* the bytes _sendMessage hands to the transport: data is encoded when it
\* is given (an object is truthy)
MessageBytes(op, group, id, seq, data) ==
    MessageOf(op, group, id, seq, IF data.present THEN CborMap(data.map) ELSE <<>>)

\* cborg.encode of a Uint8Array of n zero bytes: a byte string
CborBytes(n) ==
    (IF n < 24 THEN <<64 + n>>
     ELSE IF n < 256 THEN <<88, n>>
     ELSE <<89, n \div 256, n % 256>>) \o [i \in 1..n |-> 0]

\* what _processMessage reads from a message of at least 8 bytes before it
\* routes it; ok = FALSE when cborg.decode throws
MessageFields(message) ==
    LET decoded == CborDecode(SliceFrom(message, 8))
    IN  [ok |-> decoded.ok,
         op |-> message[1],
         length |-> message[3] * 256 + message[4],
         group |-> message[5] * 256 + message[6],
         seq |-> message[7],
         id |-> message[8],
         data |-> decoded.map]

\* _sendMessage up to its await: with no characteristic the call throws
\* before anything reaches the transport
_sendMessage(m, op, group, id, encodedLength, data) ==
    IF m.characteristic = "null" THEN m
    ELSE [m EXCEPT !.out.sent = Append(@, Frame(op, group, id, _seq, encodedLength, data)),
                   !.writes = @ + 1]

\* _uploadNext from the progress event to the send: message is the payload
\* built before the digest was awaited
UploadChunk(m, message, call) ==
    LET length == _mtu - PayloadSize(message) - nmpOverhead
        data == Slice(m.upload.image, m.upload.offset, m.upload.offset + length)
        full == [message EXCEPT !.data = data]
    IN  _sendMessage([m EXCEPT !.out.origin = call.origin,
                               !.out.session = call.session,
                               !.out.retryOf = call.retryOf],
                     OpWrite, GroupImage, GroupImageUpload, PayloadSize(full), full)

\* window.setTimeout returns an id that no armed timer and no stored
\* timeoutId carries; the model takes the least such id
SetTimeout(m) ==
    LET used == m.timers \cup {m.upload.timeoutId}
    IN  CHOOSE i \in 1..(Cardinality(used) + 1) :
            i \notin used /\ \A j \in 1..(i - 1) : j \in used

\* clearTimeout(this._upload.timeoutId), guarded by its truthiness
ClearTimeout(m) ==
    IF m.upload.timeoutId # 0 THEN m.timers \ {m.upload.timeoutId} ELSE m.timers

\* who calls _uploadNext, in which session, and (for the retry timer) the
\* chunk that was sent last and is still unanswered
Call(origin) ==
    [origin |-> origin,
     session |-> hist.session,
     retryOf |-> IF origin = "timer" /\ ~hist.ackSince THEN hist.lastChunk ELSE NoChunk]

\* _uploadNext when the whole image is acknowledged: the upload is over and
\* imageUploadFinished is dispatched with the hash of imageInfo
UploadFinished(m) ==
    [m EXCEPT !.upload.isInProgress = FALSE,
              !.out.finished = Append(@, IF m.upload.imageInfo.ok
                                         THEN m.upload.imageInfo.hash ELSE <<>>)]

\* _uploadNext when bytes are left, without the retry timer
UploadSegmentUnarmed(m, origin) ==
    LET cleared == [m EXCEPT !.timers = ClearTimeout(m), !.upload.timeoutId = 0]
    IN  IF m.upload.offset = 0
        THEN [cleared EXCEPT !.digests =
                 Append(@, [message |-> [off |-> 0, data |-> <<>>,
                                         len |-> Len(m.upload.image),
                                         sha |-> _hash(m.upload.image)],
                            call |-> Call(origin)])]
        ELSE UploadChunk(cleared, [off |-> m.upload.offset, data |-> <<>>,
                                   len |-> NaN, sha |-> <<>>],
                         Call(origin))

\* _uploadNext when bytes are left: the retry timer is armed again and the
\* chunk at offset is built, after the digest of the image at offset 0
UploadSegment(m, origin) ==
    LET cleared == [m EXCEPT !.timers = ClearTimeout(m)]
        id == SetTimeout(cleared)
        armed == [cleared EXCEPT !.timers = @ \cup {id},
                                 !.upload.timeoutId = id]
    IN  IF m.upload.offset = 0
        THEN [armed EXCEPT !.digests =
                 Append(@, [message |-> [off |-> 0, data |-> <<>>,
                                         len |-> Len(m.upload.image),
                                         sha |-> _hash(m.upload.image)],
                            call |-> Call(origin)])]
        ELSE UploadChunk(armed, [off |-> m.upload.offset, data |-> <<>>,
                                 len |-> NaN, sha |-> <<>>],
                         Call(origin))

\* _uploadNext with a completion test that lets offset = byteLength through
_uploadNextStrict(m, origin) ==
    IF m.upload.image = NoImage THEN m
    ELSE IF m.upload.offset > Len(m.upload.image) THEN UploadFinished(m)
    ELSE UploadSegment(m, origin)

\* _uploadNext up to its first await
_uploadNext(m, origin) ==
    IF m.upload.image = NoImage THEN m
    ELSE IF m.upload.offset >= Len(m.upload.image) THEN UploadFinished(m)
    ELSE UploadSegment(m, origin)

IsUploadFrame(f) ==
    /\ f.op = OpWrite
    /\ f.group_hi = 0 /\ f.group_lo = GroupImage
    /\ f.id = GroupImageUpload

\* the history of the session after a handler run with outputs out
Record(h, out) ==
    LET fin == Min(h.finished + Len(out.finished), MaxCount)
    IN  IF out.sent = <<>> THEN [h EXCEPT !.finished = fin]
        ELSE LET chunk == out.sent[1].data
                 acks == h.acks \cup {chunk.off + Len(chunk.data)}
             IN  IF out.session # h.session
                 THEN \* sent by a call that an earlier session left suspended
                      [Unhappy(h) EXCEPT !.finished = fin, !.acks = acks,
                                         !.lastChunk = NoChunk, !.repeat = "none"]
                 ELSE LET sent == [h EXCEPT
                              !.finished = fin,
                              !.chunks = @ + 1,
                              !.outstanding = 1,
                              !.lastChunk = chunk,
                              !.ackSince = FALSE,
                              !.repeat = IF h.lastChunk = NoChunk \/ h.ackSince
                                         THEN "none"
                                         ELSE IF chunk = h.lastChunk THEN "same"
                                         ELSE "different",
                              !.acks = acks]
                      IN  IF h.happy /\ h.outstanding = 0 THEN sent ELSE Unhappy(sent)

\* the history after an acknowledgement of offset off was accepted
Acked(h, off) ==
    IF /\ h.happy /\ h.outstanding = 1
       /\ off = h.lastChunk.off + Len(h.lastChunk.data)
    THEN [h EXCEPT !.outstanding = 0, !.ackSince = TRUE]
    ELSE [Unhappy(h) EXCEPT !.ackSince = TRUE]

\* the machine state and the outputs of a handler run become the next state
Commit(m, h) ==
    /\ _characteristic' = m.characteristic
    /\ _upload' = m.upload
    /\ timers' = m.timers
    /\ digests' = m.digests
    /\ writes' = m.writes
    /\ last' = m.out
    /\ hist' = [Record(h, m.out) EXCEPT !.inFlight = @ \o m.out.sent]

(***************************************************************************)
(* Incoming frames                                                         *)
(***************************************************************************)
\* _processMessage(message): route "throw" when cborg.decode throws
_processMessage(m, message) ==
    LET group_hi == IF Len(message) > 4 THEN message[5] ELSE NaN
        group_lo == IF Len(message) > 5 THEN message[6] ELSE NaN
        id == IF Len(message) > 7 THEN message[8] ELSE NaN
        decoded == CborDecode(SliceFrom(message, 8))
        data == decoded.map
        group == IF group_hi = NaN \/ group_lo = NaN THEN NaN ELSE group_hi * 256 + group_lo
        seen == [m EXCEPT !.out.frame = message, !.out.called = TRUE]
    IN  IF ~decoded.ok THEN [seen EXCEPT !.out.route = "throw"]
        ELSE IF Truthy(Prop(data, KeyRc)) THEN [seen EXCEPT !.out.route = "message"]
        ELSE IF group = GroupImage /\ id = GroupImageUpload /\ Truthy(Prop(data, KeyOff))
        THEN _uploadNext([seen EXCEPT !.out.route = "upload",
                                      !.timers = ClearTimeout(m),
                                      !.upload.offset = Prop(data, KeyOff)],
                         "ack")
        ELSE [seen EXCEPT !.out.route = "message"]

\* _notification(event): the characteristic delivers the next n bytes
_notification(n) ==
    /\ n \in 1..Len(wire)
    /\ LET message == SubSeq(wire, 1, n)
           buf == _buffer \o message
           \* this._buffer[2] * 256 + this._buffer[3], NaN when a byte is undefined
           messageLength == IF Len(buf) > 3 THEN buf[3] * 256 + buf[4] ELSE NaN
           total == IF messageLength = NaN THEN NaN ELSE messageLength + SMP_HEADER_SIZE
           \* a comparison with NaN is false
           incomplete == total # NaN /\ Len(buf) < total
           \* slice takes NaN as index 0
           cut == IF total = NaN THEN 0 ELSE total
           expect == IF written = <<>> THEN <<>> ELSE Head(written)
           m == _processMessage([Machine("notification") EXCEPT !.out.expect = expect],
                                Slice(buf, 0, cut))
       IN  /\ wire' = SubSeq(wire, n + 1, Len(wire))
           /\ IF incomplete
              THEN /\ _buffer' = buf
                   /\ last' = Quiet("notification")
                   /\ UNCHANGED <<_characteristic, _upload, timers, digests, writes,
                                  written, hist>>
              ELSE /\ _buffer' = IF m.out.route = "throw" THEN buf ELSE SliceFrom(buf, cut)
                   /\ written' = IF m.out.route = "throw" \/ cut = 0 \/ written = <<>>
                                 THEN written ELSE Tail(written)
                   /\ Commit(m, IF m.out.route = "upload"
                                THEN Acked(hist, m.upload.offset) ELSE hist)
    /\ UNCHANGED <<_mtu, _seq, starting, env>>

\* frames the device may write: responses to upload requests it has seen
\* (current, duplicated or stale), an error response and an echo response
DeviceFrame(group, id, body) ==
    <<OpWriteResponse, 0, Len(body) \div 256, Len(body) % 256,
      group \div 256, group % 256, 0, id>> \o body

AckBody(k) == <<161>> \o CborKey(KeyOff) \o CborUint(k)
AckRcBody(rc, k) == <<162>> \o CborKey(KeyRc) \o CborUint(rc) \o CborKey(KeyOff) \o CborUint(k)
RcBody(rc) == <<161>> \o CborKey(KeyRc) \o CborUint(rc)

\* the offset that answers the chunk sent last
Expected(h) == IF h.lastChunk.off = NaN THEN 0
               ELSE h.lastChunk.off + Len(h.lastChunk.data)

DeviceFrames ==
    {DeviceFrame(GroupImage, GroupImageUpload, AckBody(k)) : k \in hist.acks}
    \cup {DeviceFrame(GroupImage, GroupImageUpload, AckRcBody(0, Expected(hist)))}
    \cup {DeviceFrame(GroupImage, GroupImageUpload, RcBody(2)),
          DeviceFrame(GroupOS, GroupOSEcho, <<160>>)}

DeviceWrite(frame) ==
    /\ env < MaxEvents
    /\ frame \in DeviceFrames
    /\ wire' = wire \o frame
    /\ written' = Append(written, frame)
    /\ env' = env + 1
    /\ last' = Quiet("deviceWrite")
    /\ UNCHANGED <<_mtu, _characteristic, _buffer, _seq, _upload, timers,
                   digests, starting, writes, hist>>

\* the response that acknowledges the chunk the device received last
AnswerFrame(h) ==
    DeviceFrame(GroupImage, GroupImageUpload,
                AckBody(h.delivered.off + Len(h.delivered.data)))

\* the device answers the chunk it received last
DeviceAnswer ==
    /\ env < MaxEvents
    /\ hist.delivered # NoChunk
    /\ wire' = wire \o AnswerFrame(hist)
    /\ written' = Append(written, AnswerFrame(hist))
    /\ env' = env + 1
    /\ last' = Quiet("deviceAnswer")
    /\ UNCHANGED <<_mtu, _characteristic, _buffer, _seq, _upload, timers,
                   digests, starting, writes, hist>>

\* an Image/Upload response garbled on its way: the body is the head of a
\* map of one entry with no entry behind it, which cborg.decode rejects
GarbledFrame == DeviceFrame(GroupImage, GroupImageUpload, <<161>>)

\* the response to the chunk the device received last arrives garbled
DeviceWriteGarbled ==
    /\ env < MaxEvents
    /\ hist.delivered # NoChunk
    /\ wire' = wire \o GarbledFrame
    /\ written' = Append(written, GarbledFrame)
    /\ env' = env + 1
    /\ last' = Quiet("deviceWriteGarbled")
    /\ UNCHANGED <<_mtu, _characteristic, _buffer, _seq, _upload, timers,
                   digests, starting, writes, hist>>

\* the device answers the chunk it received and has not answered yet
DeviceReply ==
    /\ hist.due
    /\ wire' = wire \o AnswerFrame(hist)
    /\ written' = Append(written, AnswerFrame(hist))
    /\ hist' = [hist EXCEPT !.due = FALSE]
    /\ last' = Quiet("deviceReply")
    /\ UNCHANGED <<_mtu, _characteristic, _buffer, _seq, _upload, timers,
                   digests, starting, writes, env>>

\* the chunk the device was to answer, or the answer to it, is lost
Lost ==
    /\ env < MaxEvents
    /\ hist.due
    /\ env' = env + 1
    /\ hist' = [hist EXCEPT !.due = FALSE, !.lost = @ + 1]
    /\ last' = Quiet("lost")
    /\ UNCHANGED <<_mtu, _characteristic, _buffer, _seq, _upload, timers,
                   digests, starting, writes, wire, written>>

(***************************************************************************)
(* Upload                                                                  *)
(***************************************************************************)
\* cmdUpload when an upload is in progress: the error is logged and the call
\* returns
UploadRejected ==
    /\ last' = [Quiet("cmdUpload") EXCEPT !.result = "Upload is already in progress"]
    /\ UNCHANGED <<_upload, starting, hist>>

\* cmdUpload from the isInProgress test to its await of imageInfo, which
\* rejects some images before its own first await
UploadBegin(image, slot) ==
    LET info == imageInfo(image)
    IN  /\ _upload' = [_upload EXCEPT !.isInProgress = TRUE,
                                      !.offset = 0,
                                      !.image = image]
        /\ hist' = IF info.ok THEN NewSession(hist) ELSE Unhappy(NewSession(hist))
        /\ IF ~info.ok /\ ~info.afterDigest
           THEN /\ starting' = starting
                /\ last' = [Quiet("cmdUpload") EXCEPT !.result = info.err]
           ELSE /\ starting' = <<[image |-> image, slot |-> slot]>>
                /\ last' = [Quiet("cmdUpload") EXCEPT !.result = "pending"]

\* cmdUpload without the isInProgress test
cmdUploadUnguarded(image, slot) ==
    /\ env < MaxEvents
    /\ starting = <<>> \/ _upload.isInProgress
    /\ env' = env + 1
    /\ UploadBegin(image, slot)
    /\ UNCHANGED <<_mtu, _characteristic, _buffer, _seq, timers,
                   digests, writes, wire, written>>

\* cmdUpload(image, slot) up to its await of imageInfo
cmdUpload(image, slot) ==
    /\ env < MaxEvents
    /\ starting = <<>> \/ _upload.isInProgress
    /\ env' = env + 1
    /\ IF _upload.isInProgress THEN UploadRejected ELSE UploadBegin(image, slot)
    /\ UNCHANGED <<_mtu, _characteristic, _buffer, _seq, timers,
                   digests, writes, wire, written>>

\* cmdUpload from the completion of imageInfo to its await of _uploadNext
cmdUploadResume ==
    /\ starting # <<>>
    /\ starting' = <<>>
    /\ LET call == starting[1]
           info == imageInfo(call.image)
       IN  IF ~info.ok
           THEN /\ last' = [Quiet("cmdUploadResume") EXCEPT !.result = info.err]
                /\ hist' = Unhappy(hist)
                /\ UNCHANGED <<_characteristic, _upload, timers, digests, writes>>
           ELSE Commit(_uploadNext([Machine("cmdUploadResume") EXCEPT
                                        !.upload.imageInfo = info,
                                        !.upload.slot = call.slot,
                                        !.out.result = "started"],
                                   "start"),
                       hist)
    /\ UNCHANGED <<_mtu, _buffer, _seq, wire, written, env>>

\* the digest awaited by a suspended _uploadNext is delivered
DigestDone(i) ==
    /\ i \in 1..Len(digests)
    /\ LET call == digests[i]
           rest == SubSeq(digests, 1, i - 1) \o SubSeq(digests, i + 1, Len(digests))
       IN  Commit(UploadChunk([Machine("digestDone") EXCEPT !.digests = rest],
                              call.message, call.call),
                  hist)
    /\ UNCHANGED <<_mtu, _buffer, _seq, starting, wire, written, env>>

\* the callback of the retry timer t runs
TimerFires(t) ==
    /\ t \in timers
    /\ Commit(_uploadNext([Machine("timeout") EXCEPT !.timers = @ \ {t}], "timer"),
              Unhappy(hist))
    /\ UNCHANGED <<_mtu, _buffer, _seq, starting, wire, written>>

\* the retry timer t expires
Timeout(t) ==
    /\ env < MaxEvents
    /\ env' = env + 1
    /\ TimerFires(t)

\* the transport write awaited by a suspended _sendMessage completes
WriteDone ==
    /\ writes > 0
    /\ writes' = writes - 1
    /\ _seq' = (_seq + 1) % 256
    /\ last' = Quiet("writeDone")
    /\ hist' = [hist EXCEPT !.inFlight = Tail(@),
                            !.delivered = IF IsUploadFrame(Head(hist.inFlight))
                                          THEN Head(hist.inFlight).data ELSE @,
                            !.due = @ \/ IsUploadFrame(Head(hist.inFlight))]
    /\ UNCHANGED <<_mtu, _characteristic, _buffer, _upload, timers,
                   digests, starting, wire, written, env>>

\* the transport write awaited by a suspended _sendMessage is rejected: the
\* call throws at its await, before the increment of _seq
WriteFail ==
    /\ writes > 0
    /\ writes' = writes - 1
    /\ last' = Quiet("writeFail")
    /\ hist' = [hist EXCEPT !.inFlight = Tail(@),
                            !.failedChunk = IF IsUploadFrame(Head(hist.inFlight))
                                            THEN Head(hist.inFlight).data ELSE @]
    /\ UNCHANGED <<_mtu, _characteristic, _buffer, _seq, _upload, timers,
                   digests, starting, wire, written, env>>

\* cmdReset(): a command of the caller, sent without a body
cmdReset ==
    /\ env < MaxEvents
    /\ env' = env + 1
    /\ LET m == _sendMessage(Machine("cmdReset"), OpWrite, GroupOS, GroupOSReset,
                             0, NoChunk)
       IN  /\ writes' = m.writes
           /\ last' = m.out
           /\ hist' = [hist EXCEPT !.inFlight = @ \o m.out.sent]
    /\ UNCHANGED <<_mtu, _characteristic, _buffer, _seq, _upload, timers,
                   digests, starting, wire, written>>

\* imageInfo(image) called by the user on the image of parameters p
imageInfoCall(p) ==
    /\ last.act = "init"
    /\ last' = [Quiet("imageInfo") EXCEPT !.input = p, !.info = imageInfo(BuildImage(p))]
    /\ UNCHANGED <<_mtu, _characteristic, _buffer, _seq, _upload, timers, digests,
                   starting, writes, wire, written, env, hist>>

\* the requests given to _sendMessage
Ops == 0..3
Groups == {0, 1, 255, 256, 65535}
Ids == {0, 1, 255}
Datas == {NoData, Data({}), Data({<<KeyOff, 5>>}), Data({<<KeyRc, 3>>}),
          Data({<<KeyRc, 0>>, <<KeyOff, 300>>})}

\* the largest body length the two length bytes can carry
MaxBodyLength == 65535

\* the lengths of the encoded bodies sent: none, the shortest, and those
\* around the steps of the two length bytes
BodyLengths == {0, 1, 24, 255, 256, 257, MaxBodyLength}

\* the encoded body of a length: nothing for an absent body, else the
\* encoding of a byte string that fills it
EncodedBody(length) ==
    IF length = 0 THEN <<>>
    ELSE IF length < 25 THEN CborBytes(length - 1)
    ELSE IF length < 258 THEN CborBytes(length - 2)
    ELSE CborBytes(length - 3)

\* _sendMessage called once on a connected manager with a body whose
\* encoding has the given length
sendEncodedCall(op, group, id, length) ==
    /\ last.act = "init"
    /\ last' = [Quiet("sendEncoded") EXCEPT
                   !.frame = MessageOf(op, group, id, _seq, EncodedBody(length)),
                   !.input = [op |-> op, group |-> group, id |-> id,
                              seq |-> _seq, length |-> length]]
    /\ UNCHANGED <<_mtu, _characteristic, _buffer, _seq, _upload, timers, digests,
                   starting, writes, wire, written, env, hist>>

\* _sendMessage(op, group, id, data) on a connected manager whose write
\* succeeds, and the fields _processMessage reads from the bytes written
sendMessageCall(op, group, id, data) ==
    /\ env < MaxEvents
    /\ env' = env + 1
    /\ last' = [Quiet("sendMessage") EXCEPT
                   !.frame = MessageBytes(op, group, id, _seq, data),
                   !.input = [op |-> op, group |-> group, id |-> id,
                              seq |-> _seq, data |-> data],
                   !.info = MessageFields(MessageBytes(op, group, id, _seq, data))]
    /\ _seq' = (_seq + 1) % 256
    /\ UNCHANGED <<_mtu, _characteristic, _buffer, _upload, timers, digests,
                   starting, writes, wire, written, hist>>

(***************************************************************************)
(* Link                                                                    *)
(***************************************************************************)
\* the callback of _connect: the characteristic is set, a pending upload
\* is resumed
_connect ==
    /\ env < MaxEvents
    /\ env' = env + 1
    /\ IF _upload.isInProgress
       THEN Commit(_uploadNext([Machine("connect") EXCEPT !.characteristic = "gatt"],
                               "connect"),
                   Unhappy(hist))
       ELSE /\ _characteristic' = "gatt"
            /\ last' = Quiet("connect")
            /\ UNCHANGED <<_upload, timers, digests, writes, hist>>
    /\ UNCHANGED <<_mtu, _buffer, _seq, starting, wire, written>>

_disconnected ==
    /\ env < MaxEvents
    /\ env' = env + 1
    /\ _characteristic' = "null"
    /\ _upload' = [_upload EXCEPT !.isInProgress = FALSE]
    /\ last' = Quiet("disconnected")
    /\ hist' = Unhappy(hist)
    /\ UNCHANGED <<_mtu, _buffer, _seq, timers, digests, starting,
                   writes, wire, written>>

(***************************************************************************)
(* Specifications                                                          *)
(***************************************************************************)
\* The upload engine: the device writes one frame at a time, a notification
\* carries one whole frame, and a transport write or a notification that is
\* due is delivered before the next stimulus.
Settled == writes = 0 /\ wire = <<>>

Next ==
    \/ Settled /\ \E image \in Images, slot \in Slots : cmdUpload(image, slot)
    \/ Settled /\ cmdUploadResume
    \/ Settled /\ \E i \in 1..Len(digests) : DigestDone(i)
    \/ Settled /\ \E t \in timers : Timeout(t)
    \/ WriteDone
    \/ Settled /\ _buffer = <<>> /\ \E frame \in DeviceFrames : DeviceWrite(frame)
    \/ writes = 0 /\ _notification(Len(wire))
    \/ Settled /\ _connect
    \/ Settled /\ _disconnected

Spec == Init /\ [][Next]_vars

\* The reassembly buffer: the device writes frames back to back and the
\* characteristic delivers them in fragments of any size.
NextFragments ==
    \/ env < MaxFrames /\ \E frame \in DeviceFrames : DeviceWrite(frame)
    \/ \E n \in 1..Len(wire) : _notification(n)

SpecFragments == Init /\ [][NextFragments]_vars

\* The upload engine with a device that answers every chunk it receives
\* and a link that may garble a response.
NextGarbled ==
    \/ Settled /\ \E image \in GoodImages, slot \in Slots : cmdUpload(image, slot)
    \/ Settled /\ cmdUploadResume
    \/ Settled /\ \E i \in 1..Len(digests) : DigestDone(i)
    \/ Settled /\ \E t \in timers : Timeout(t)
    \/ WriteDone
    \/ Settled /\ DeviceAnswer
    \/ Settled /\ DeviceWriteGarbled
    \/ writes = 0 /\ _notification(Len(wire))
    \/ Settled /\ _connect

SpecGarbled == Init /\ [][NextGarbled]_vars

\* The upload engine over a transport whose writes take time and may fail:
\* the link is up before an upload starts, and a command of the caller need
\* not wait for the write in progress.
NextTransport ==
    \/ Settled /\ \E image \in GoodImages, slot \in Slots : cmdUpload(image, slot)
    \/ Settled /\ cmdUploadResume
    \/ Settled /\ \E i \in 1..Len(digests) : DigestDone(i)
    \/ Settled /\ \E t \in timers : Timeout(t)
    \/ wire = <<>> /\ cmdReset
    \/ WriteDone
    \/ WriteFail
    \/ Settled /\ DeviceAnswer
    \/ writes = 0 /\ _notification(Len(wire))
    \/ Settled /\ ~_upload.isInProgress /\ _connect

SpecTransport == Init /\ [][NextTransport]_vars

\* The upload engine on a link that loses finitely many chunks and answers:
\* the manager is connected before the upload starts and the device answers
\* every chunk that reaches it.  A retry timer fires when nothing is left
\* to wait for (the chunk or its answer was lost), and finitely many times
\* early, while the answer is still on its way.
Waiting == Settled /\ ~hist.due /\ digests = <<>> /\ starting = <<>>

NextLossy ==
    \/ Settled /\ ~_upload.isInProgress /\ _connect
    \/ Settled /\ _characteristic = "gatt"
               /\ \E image \in GoodImages, slot \in Slots : cmdUpload(image, slot)
    \/ Settled /\ cmdUploadResume
    \/ Settled /\ \E i \in 1..Len(digests) : DigestDone(i)
    \/ Waiting /\ \E t \in timers : TimerFires(t) /\ UNCHANGED env
    \/ Settled /\ ~Waiting /\ \E t \in timers : Timeout(t)
    \/ WriteDone
    \/ Settled /\ Lost
    \/ Settled /\ DeviceReply
    \/ writes = 0 /\ _notification(Len(wire))

\* the steps that are bound to happen: an awaited digest or write completes,
\* a due timer fires, the device answers, a notification is delivered
Progress ==
    \/ Settled /\ cmdUploadResume
    \/ Settled /\ \E i \in 1..Len(digests) : DigestDone(i)
    \/ WriteDone
    \/ Waiting /\ \E t \in timers : TimerFires(t) /\ UNCHANGED env
    \/ Settled /\ DeviceReply
    \/ writes = 0 /\ _notification(Len(wire))

\* Progress can take a step (the guards of its disjuncts)
Due ==
    \/ writes > 0
    \/ writes = 0 /\ wire # <<>>
    \/ Settled /\ (starting # <<>> \/ digests # <<>> \/ hist.due)
    \/ Waiting /\ timers # {}

\* weak fairness of Progress, WF_vars(Progress), with its ENABLED written
\* as the state predicate Due
FairLossy == []<>(~Due) \/ []<><<Progress>>_vars

SpecLossy == Init /\ [][NextLossy]_vars /\ FairLossy

\* The image parser: imageInfo applied to every image of the family.
NextParser == \E p \in ImageParams : imageInfoCall(p)

SpecParser == Init /\ [][NextParser]_vars

\* the frame codec alone: a connected manager that sends, its sequence
\* counter at the start of its range or close to the end of it
InitCodec ==
    /\ _mtu \in MTUs
    /\ _characteristic = "gatt"
    /\ _buffer = <<>>
    /\ _seq \in {0, 256 - MaxEvents}
    /\ _upload = [isInProgress |-> FALSE, slot |-> 0, offset |-> 0,
                  image |-> NoImage, imageInfo |-> NoInfo, timeoutId |-> 0]
    /\ timers = {}
    /\ digests = <<>>
    /\ starting = <<>>
    /\ writes = 0
    /\ wire = <<>>
    /\ written = <<>>
    /\ env = 0
    /\ last = Quiet("init")
    /\ hist = NoHistory

NextCodec ==
    \E op \in Ops, group \in Groups, id \in Ids, data \in Datas :
        sendMessageCall(op, group, id, data)

SpecCodec == InitCodec /\ [][NextCodec]_vars

\* the header of the frames sent, over the whole range of body lengths
NextHeader ==
    \E op \in Ops, group \in Groups, id \in Ids, length \in BodyLengths :
        sendEncodedCall(op, group, id, length)

SpecHeader == InitCodec /\ [][NextHeader]_vars

(***************************************************************************)
(* Properties                                                              *)
(***************************************************************************)
\* the data budget of the chunk at offset off of an image of total bytes
Budget(off, total) ==
    _mtu - nmpOverhead
         - PayloadSize([off |-> off, data |-> <<>>,
                        len |-> IF off = 0 THEN total ELSE NaN,
                        sha |-> IF off = 0 THEN [i \in 1..HashLen |-> 0] ELSE <<>>])

RECURSIVE ChunkCount(_, _)
\* the number of chunks from offset off when every chunk carries
\* min(budget, bytes left) bytes; NaN when a budget is not positive
ChunkCount(off, total) ==
    IF off >= total THEN 0
    ELSE IF Budget(off, total) <= 0 THEN NaN
    ELSE LET rest == ChunkCount(off + Min(Budget(off, total), total - off), total)
         IN  IF rest = NaN THEN NaN ELSE 1 + rest

\* C1: on the happy path (every chunk sent once and answered by one
\* acknowledgement of its last byte, no timer expiry), when offset has
\* reached the length of the image it equals that length, the number of
\* chunks sent is the one the per chunk budget determines, exactly one
\* imageUploadFinished was emitted and the upload is no longer in progress.
C1_HappyPath ==
    (/\ hist.happy
     /\ _upload.image # NoImage
     /\ _upload.offset >= Len(_upload.image)
     /\ ChunkCount(0, Len(_upload.image)) # NaN)
    => /\ _upload.offset = Len(_upload.image)
       /\ hist.chunks = ChunkCount(0, Len(_upload.image))
       /\ hist.finished = 1
       /\ ~_upload.isInProgress

C1_Witness ==
    /\ hist.happy /\ hist.finished = 1
    /\ hist.chunks > 1 /\ hist.chunks = ChunkCount(0, Len(_upload.image))
    /\ last.finished # <<>>
    /\ _upload.offset = Len(_upload.image)

\* an upload of a well formed image is in progress
SessionActive == _upload.isInProgress /\ _upload.image \in GoodImages

\* C2: while a session is active, when the retry timer fires with a chunk
\* unanswered, the chunk its _uploadNext sends is identical to that chunk
\* (same off, data, len and sha); while an upload is in progress offset
\* changes only in a step that accepts an acknowledgement.
C2_TimeoutResend ==
    [][/\ (/\ SessionActive
           /\ last'.sent # <<>>
           /\ last'.origin = "timer"
           /\ last'.session = hist.session
           /\ last'.retryOf # NoChunk)
          => last'.sent[1].data = last'.retryOf
       /\ (_upload.isInProgress /\ _upload'.offset # _upload.offset)
          => last'.route = "upload"]_vars

\* C3: a cmdUpload call made while an upload is in progress is rejected as
\* already in progress, leaves image, offset, slot, isInProgress and the
\* retry timer unchanged and sends no frame.
C3_StartWhileActive ==
    [][(_upload.isInProgress /\ last'.act = "cmdUpload")
       => /\ last'.result = "Upload is already in progress"
          /\ _upload' = _upload
          /\ timers' = timers
          /\ digests' = digests
          /\ writes' = writes
          /\ last'.sent = <<>>]_vars

C3_Witness ==
    /\ last.act = "cmdUpload"
    /\ last.result = "Upload is already in progress"
    /\ _upload.isInProgress /\ _upload.offset > 0 /\ timers # {}

ParserErrors ==
    {"too short file", "wrong magic bytes", "wrong load address", "wrong image size",
     "wrong flags", "Expected protected TLV magic number", "Expected TLV magic number",
     "RangeError"}

\* C4: when cmdUpload is called on an idle engine with an image that
\* imageInfo rejects, no chunk is sent and the engine is left idle.
C4_ParserFailureLeavesIdle ==
    last.result \in ParserErrors
    => /\ ~_upload.isInProgress
       /\ last.sent = <<>>

\* C5: within one upload session (an upload in progress, no new cmdUpload)
\* offset never decreases.
C5_OffsetMonotonic ==
    [][(SessionActive /\ hist'.session = hist.session)
       => _upload'.offset >= _upload.offset]_vars

\* the frame is an Image/Upload response without error code
IsUploadResponse(frame) ==
    /\ Len(frame) >= SMP_HEADER_SIZE
    /\ frame[5] * 256 + frame[6] = GroupImage
    /\ frame[8] = GroupImageUpload
    /\ CborDecode(SliceFrom(frame, 8)).ok
    /\ Prop(CborDecode(SliceFrom(frame, 8)).map, KeyRc) \in {NaN, 0}

OffOf(frame) == Prop(CborDecode(SliceFrom(frame, 8)).map, KeyOff)

\* C6: while a chunk is in flight an Image/Upload response without error
\* code whose off is missing or is not the offset that answers that chunk
\* leaves offset unchanged and sends no chunk.
C6_AckMustMatch ==
    [][(/\ SessionActive
        /\ last'.called
        /\ IsUploadResponse(last'.frame)
        /\ hist.lastChunk # NoChunk
        /\ OffOf(last'.frame) # Expected(hist))
       => /\ _upload'.offset = _upload.offset
          /\ last'.sent = <<>>]_vars

\* C7: a decoded frame is consumed by the upload engine if it is an
\* Image/Upload response with rc absent or 0 and an off field (of any value,
\* 0 included), and is delivered on the message channel otherwise.
C7_Routing ==
    (/\ last.called
     /\ Len(last.frame) >= SMP_HEADER_SIZE
     /\ CborDecode(SliceFrom(last.frame, 8)).ok)
    => IF IsUploadResponse(last.frame) /\ OffOf(last.frame) # NaN
       THEN last.route = "upload"
       ELSE last.route = "message"

\* C8: whatever the fragmentation, _processMessage is called only with a
\* complete frame, byte-identical to the oldest frame written and not yet
\* extracted; nothing is extracted or decoded before that.
C8_Reassembly ==
    last.called
    => /\ Len(last.frame) >= SMP_HEADER_SIZE
       /\ last.frame = last.expect

\* the accumulator holds a complete frame
HoldsFrame(buf) ==
    /\ Len(buf) > 3
    /\ Len(buf) >= buf[3] * 256 + buf[4] + SMP_HEADER_SIZE

\* C9: after a notification has been handled the accumulator never holds a
\* complete frame (frames that arrive back to back in one fragment are all
\* extracted while that fragment is handled).
C9_NoFrameLeft == ~HoldsFrame(_buffer)

\* C10: when the upload of a well formed image is complete
\* (imageUploadFinished is emitted) the session is destroyed: isInProgress
\* is false and the image is cleared.
C10_SessionDestroyed ==
    (last.finished # <<>> /\ _upload.image \notin BadImages)
    => /\ ~_upload.isInProgress
       /\ _upload.image = NoImage

\* a response that acknowledges chunk was delivered in full and is still in
\* the accumulator
AnswerPending(chunk) ==
    /\ wire = <<>>
    /\ \E i \in 1..Len(written) :
          written[i] = DeviceFrame(GroupImage, GroupImageUpload,
                                   AckBody(chunk.off + Len(chunk.data)))

\* C11: a frame handed to _processMessage that is not accepted as an upload
\* acknowledgement (it is dispatched as a message, or its body does not
\* decode) leaves _upload and the retry timer unchanged and sends nothing;
\* and it costs at most one retransmission: the retry timer never resends a
\* chunk whose acknowledgement has been delivered in full.
C11_BadAckHarmless ==
    [][/\ (last'.called /\ last'.route # "upload")
          => /\ _upload' = _upload
             /\ timers' = timers
             /\ digests' = digests
             /\ last'.sent = <<>>
       /\ (/\ last'.sent # <<>>
           /\ last'.origin = "timer"
           /\ last'.retryOf # NoChunk)
          => ~AnswerPending(last'.retryOf)]_vars

\* C12: when the transport write of an upload chunk fails during an upload,
\* offset and _seq are unchanged and the retry timer armed for the chunk
\* stays pending; and when that timer retries the chunk, the chunk sent is
\* identical to the one whose write failed.
C12_WriteFailure ==
    [][/\ (/\ SessionActive
           /\ last'.act = "writeFail"
           /\ IsUploadFrame(Head(hist.inFlight))
           /\ Head(hist.inFlight).data = hist.lastChunk)
          => /\ _upload'.offset = _upload.offset
             /\ _seq' = _seq
             /\ timers' = timers
             /\ _upload.timeoutId \in timers
       /\ (/\ SessionActive
           /\ last'.sent # <<>>
           /\ last'.origin = "timer"
           /\ last'.session = hist.session
           /\ last'.retryOf # NoChunk
           /\ last'.retryOf = hist.failedChunk)
          => last'.sent[1].data = last'.retryOf]_vars

\* C13: _seq starts at 0 and changes only when a transport write succeeds,
\* by one modulo 256, so that it counts the frames written successfully;
\* and the frame whose write succeeds carries that count as its sequence
\* number, whatever was sent while the write was awaited.
C13_SequenceNumbers ==
    [][/\ _seq' = IF last'.act = "writeDone" THEN (_seq + 1) % 256 ELSE _seq
       /\ last'.act = "writeDone" => Head(hist.inFlight).seq = _seq]_vars

\* the bytes of the frame on the wire: the 8 byte header and the encoded body
FrameLength(f) == SMP_HEADER_SIZE + f.encodedLength

\* C14: every upload frame handed to the transport is at most mtu bytes long,
\* header and encoded payload (data byte string with its length prefix)
\* included, and its data is cut to the budget mtu - size of the payload
\* with empty data - 8.
C14_ChunkFitsMtu ==
    \A i \in 1..Len(last.sent) :
        IsUploadFrame(last.sent[i])
        => /\ FrameLength(last.sent[i]) <= _mtu
           /\ Len(last.sent[i].data.data)
                  <= Max(0, _mtu - nmpOverhead
                               - PayloadSize([last.sent[i].data EXCEPT !.data = <<>>]))

\* C15: in the upload of a parsed image the hash that imageInfo computed at
\* the start is the sha field of every chunk sent at offset 0 and the hash
\* that imageUploadFinished carries.
C15_HashConsistency ==
    (_upload.imageInfo.ok /\ _upload.image \in GoodImages /\ last.session = hist.session)
    => /\ \A i \in 1..Len(last.sent) :
            (IsUploadFrame(last.sent[i]) /\ last.sent[i].data.off = 0)
            => last.sent[i].data.sha = _upload.imageInfo.hash
       /\ \A i \in 1..Len(last.finished) :
            last.finished[i] = _upload.imageInfo.hash

\* the image of parameters p breaks no rule of the format
StructurallyValid(p) ==
    /\ p.magic /\ p.load = 0 /\ p.flags = 0 /\ p.extra = 0 /\ ~p.short
    /\ p.magicTlv = "ok"
    /\ \A i \in 1..Len(p.trailer) : p.trailer[i] \notin {"cut16", "stub"}

\* the kind of the last entry of a tag in a list of entries, or "none"
LastOfTag(kinds, tag) ==
    LET at == {i \in 1..Len(kinds) : EntryTag(kinds[i]) = tag}
    IN  IF at = {} THEN "none"
        ELSE kinds[CHOOSE i \in at : \A j \in at : j <= i]

\* C17: imageInfo accepts every structurally valid image, its hash is the
\* digest of header, payload and protected TLV area, and hashValid is true
\* exactly when the merged tags hold under tag 16 that digest (the entry of
\* tag 16 that comes last, protected area first, carries it); a missing,
\* short or different tag 16 gives hashValid = false, never an error.
C17_HashValidity ==
    (last.act = "imageInfo" /\ StructurallyValid(last.input))
    => /\ last.info.ok
       /\ last.info.hash = _hash(SignedPart(last.input))
       /\ last.info.hashValid
              = (LastOfTag(last.input.protected \o last.input.trailer, 16) = "hash16")

C17_Witness ==
    /\ last.act = "imageInfo" /\ StructurallyValid(last.input)
    /\ last.input.protected = <<"zero16">>
    /\ last.input.trailer = <<"flip16", "hash16">>
    /\ last.info.ok /\ last.info.hashValid

\* the error the format rules give for the image of parameters p: that of
\* the first rule broken, in the order too short, magic, load address,
\* image size, flags, trailer magic; "none" when none of them is broken
FirstError(p) ==
    IF Len(BuildImage(p)) < 32 THEN "too short file"
    ELSE IF ~p.magic THEN "wrong magic bytes"
    ELSE IF p.load # 0 THEN "wrong load address"
    ELSE IF Len(BuildImage(p)) < p.n + p.extra + 32 THEN "wrong image size"
    ELSE IF p.flags # 0 THEN "wrong flags"
    ELSE IF p.extra # 0 THEN "other"
    ELSE IF p.magicTlv # "ok" THEN "Expected TLV magic number"
    ELSE "none"

\* C18: an image that breaks a rule of the format is rejected with the
\* error of the first rule it breaks (too short, magic, load address, image
\* size, flags, trailer magic, the last one also when the file ends where
\* the trailer should begin), and no descriptor is returned.
C18_SpecificErrors ==
    (last.act = "imageInfo" /\ FirstError(last.input) \notin {"none", "other"})
    => /\ ~last.info.ok
       /\ last.info.err = FirstError(last.input)

\* the kinds of entry that leave the TLV area: value bytes cut, header cut
Overrunning == {"cut16", "stub"}

\* the trailer of the image of parameters p is parsed (no earlier rule is
\* broken) and one of its entries extends past the end of the TLV area
TrailerOverrun(p) ==
    /\ FirstError(p) = "none"
    /\ \E i \in 1..Len(p.trailer) : p.trailer[i] \in Overrunning

\* the kinds of the entries of the image of parameters p
EntryKinds(p) ==
    {p.protected[i] : i \in 1..Len(p.protected)}
        \cup {p.trailer[i] : i \in 1..Len(p.trailer)}

\* C19: an entry of a TLV area whose header or whose declared value bytes
\* extend past the end of the area makes the parse fail, and a descriptor
\* never holds a tag with a value shorter than the length its entry declares.
C19_TlvBounds ==
    last.act = "imageInfo"
    => /\ TrailerOverrun(last.input) => ~last.info.ok
       /\ (FirstError(last.input) = "none" /\ last.info.ok)
          => \A e \in last.info.tags :
                \E k \in EntryKinds(last.input) :
                    EntryTag(k) = e[1] /\ EntryDeclared(k) = Len(e[2])

\* C16: the fields read from the bytes _sendMessage writes are the
\* operation, group, command, sequence number and body it was given, the
\* length read is the number of bytes after the 8-byte header, and an absent
\* body is written as a body of length zero.
C16_RoundTrip ==
    last.act = "sendMessage"
    => /\ ~last.input.data.present => Len(last.frame) = SMP_HEADER_SIZE
       /\ last.info.length = Len(last.frame) - SMP_HEADER_SIZE
       /\ last.info.ok
       /\ last.info.op = last.input.op
       /\ last.info.group = last.input.group
       /\ last.info.id = last.input.id
       /\ last.info.seq = last.input.seq
       /\ last.info.data = last.input.data.map

\* the accumulator begins with the bytes of frame
AtFront(frame) ==
    /\ Len(_buffer) >= Len(frame)
    /\ SubSeq(_buffer, 1, Len(frame)) = frame

\* C20: a complete frame whose body cannot be decoded is handed to
\* _processMessage once: after the notification that extracted it, its
\* bytes are no longer at the front of the accumulator.
C20_BadFrameDropped ==
    (/\ last.act = "notification"
     /\ last.called
     /\ Len(last.frame) >= SMP_HEADER_SIZE
     /\ last.route = "throw")
    => ~AtFront(last.frame)

\* C21: every upload frame handed to the transport carries, for the off of
\* its own payload, the bytes of the image from off to off plus the data
\* budget of that off (clamped to the end of the image), and carries len and
\* sha exactly when that off is 0, however the digest awaited by the send at
\* offset 0 is interleaved with timers and acknowledgements.
C21_ChunkConsistency ==
    \A i \in 1..Len(last.sent) :
        (SessionActive /\ IsUploadFrame(last.sent[i]))
        => LET chunk == last.sent[i].data
           IN  /\ chunk.data = Slice(_upload.image, chunk.off,
                                     chunk.off + Budget(chunk.off, Len(_upload.image)))
               /\ (chunk.len # NaN) = (chunk.off = 0)
               /\ (chunk.sha # <<>>) = (chunk.off = 0)

\* C22: a session of a well formed image dispatches imageUploadFinished at
\* most once, whatever acknowledgements (duplicated or late), timers and
\* sends follow its start.
C22_FinishedOnce ==
    _upload.image \in GoodImages => hist.finished <= 1

\* C23: while no upload is in progress, an Image/Upload response and the
\* expiry of a retry timer leave offset unchanged and send no chunk.
C23_IdleIsQuiet ==
    [][(/\ ~_upload.isInProgress
        /\ _upload.image \notin BadImages
        /\ \/ last'.act = "timeout"
           \/ last'.act = "notification" /\ last'.called
                                          /\ IsUploadResponse(last'.frame))
       => /\ _upload'.offset = _upload.offset
          /\ last'.sent = <<>>]_vars

\* C24: at most one retry timer is pending, and none is pending while no
\* upload is in progress.
C24_TimerDiscipline ==
    _upload.image \notin BadImages
    => /\ Cardinality(timers) <= 1
       /\ ~_upload.isInProgress => timers = {}

\* the first chunk of an upload of a well formed image has been sent and
\* bytes are left to acknowledge
Uploading ==
    /\ SessionActive
    /\ hist.lastChunk # NoChunk
    /\ _upload.offset < Len(_upload.image)

\* the whole image is acknowledged and imageUploadFinished was dispatched
Completed ==
    /\ _upload.offset = Len(_upload.image)
    /\ hist.finished > 0

\* C25: once the first chunk is sent, a retry timer is pending whenever the
\* upload is in progress with bytes left, and with timers that fire and a
\* device that answers the chunks it receives the upload reaches the end of
\* the image and dispatches imageUploadFinished, whichever finitely many
\* chunks and answers are lost.
C25_RetryProgress ==
    /\ [](Uploading => timers # {})
    /\ Uploading ~> Completed

\* an upload that lost two chunks or answers on its way, was retried and
\* completed once
C25_Witness ==
    /\ Completed
    /\ _upload.image \in GoodImages
    /\ hist.lost >= 2
    /\ hist.finished = 1
    /\ last.finished # <<>>

\* the bytes a notification step delivers: the front of wire that is gone
Delivered == SubSeq(wire, 1, Len(wire) - Len(wire'))

\* C26: a notification step conserves the bytes and their order: the frame
\* it extracts, if any, followed by the accumulator after the step is the
\* accumulator before the step followed by the fragment delivered, and an
\* extracted frame is 8 + bodyLength bytes long, bodyLength read big-endian
\* from its bytes 2-3.
C26_ByteConservation ==
    [][last'.act = "notification"
       => IF last'.called
          THEN /\ last'.frame \o _buffer' = _buffer \o Delivered
               /\ Len(last'.frame) >= SMP_HEADER_SIZE
               /\ Len(last'.frame)
                      = SMP_HEADER_SIZE + last'.frame[3] * 256 + last'.frame[4]
          ELSE _buffer' = _buffer \o Delivered]_vars

\* tags as a function of the entries parsed in order: a later entry of a tag
\* replaces an earlier one
RECURSIVE Merged(_, _)
Merged(kinds, digest) ==
    IF kinds = <<>> THEN {}
    ELSE LET k == kinds[Len(kinds)]
             before == Merged(SubSeq(kinds, 1, Len(kinds) - 1), digest)
         IN  {e \in before : e[1] # EntryTag(k)}
                 \cup {<<EntryTag(k), SliceFrom(EntryBytes(k, digest), 4)>>}

\* C27: the tags of a structurally valid image are the entries of the
\* protected area followed by those of the trailer, merged in that order: a
\* tag of both areas has the value of the trailer, and within an area a later
\* entry of a tag replaces an earlier one.
C27_MergePrecedence ==
    (last.act = "imageInfo" /\ StructurallyValid(last.input))
    => /\ last.info.ok
       /\ last.info.tags = Merged(last.input.protected \o last.input.trailer,
                                  _hash(SignedPart(last.input)))

\* tag 16 in the protected area and twice in the trailer: the last entry of
\* the trailer is reported
C27_Witness ==
    /\ last.act = "imageInfo" /\ StructurallyValid(last.input)
    /\ last.input.protected = <<"zero16">>
    /\ last.input.trailer = <<"flip16", "hash16">>
    /\ last.info.ok
    /\ TagValue(last.info.tags, 16) = _hash(SignedPart(last.input))

\* C28: a frame handed to the transport has flags byte 0, in bytes 2-3 the
\* length of its encoded body and in bytes 4-5 the group, both big-endian,
\* and is 8 bytes longer than its body, for every body length up to 65535.
C28_SentHeader ==
    last.act = "sendEncoded"
    => /\ Len(EncodedBody(last.input.length)) = last.input.length
       /\ last.frame[2] = 0
       /\ last.frame[3] * 256 + last.frame[4] = last.input.length
       /\ last.frame[5] * 256 + last.frame[6] = last.input.group
       /\ Len(last.frame) = SMP_HEADER_SIZE + last.input.length
       /\ \A i \in 1..Len(last.frame) : last.frame[i] \in 0..255

\* the largest body and the largest group
C28_Witness ==
    /\ last.act = "sendEncoded"
    /\ last.input.length = MaxBodyLength
    /\ last.input.group = 65535
    /\ last.frame[3] = 255 /\ last.frame[4] = 255
    /\ Len(last.frame) = 65543

====
